---------------------------- MODULE Spec2Model ----------------------------
(***************************************************************************)
(* Authentication and session lifecycle of the backend: login, refresh     *)
(* rotation, logout, password change and user management over the shared   *)
(* relational store (tables users and refresh_tokens).                     *)
(*                                                                         *)
(* Every repository call that commits is one atomic step on the store.     *)
(* refresh_access_token makes several store calls, so it is a process with *)
(* one step per store call; two such requests run concurrently, each with  *)
(* its own session.  The other handlers make one committing call after     *)
(* their reads and are single steps.                                       *)
(*                                                                         *)
(* A JWT is the record of its claims plus whether its signature verifies   *)
(* under the server secret.  Time is a discrete clock.  Row ids and the    *)
(* created_at / updated_at columns are never read by the handlers and are  *)
(* left out.  What a handler answers is an operator of the state it reads  *)
(* (login_response, decode_response, token_record_response, ...), used by  *)
(* the handler's action; a failing handler changes nothing and a request   *)
(* in flight carries the facts about its token at the time it arrived.     *)
(*                                                                         *)
(* Spec runs every handler, two concurrent refresh requests and worker     *)
(* crashes within one tick of the clock; SpecClock runs the session        *)
(* handlers with the clock advancing; SpecAccount runs the single-step     *)
(* handlers alone; SpecGuard adds the clock and requests to endpoints      *)
(* under require_auth and require_role to them.                            *)
(***************************************************************************)
EXTENDS Integers, FiniteSets, Sequences, TLC

\* ------------------------------------------------------------------ bounds
MaxUsers == 2
MaxTokens == 3
MaxTime == 2

\* REFRESH_TOKEN_EXPIRE_DAYS and ACCESS_TOKEN_EXPIRE_MINUTES, both configured
\* to one tick of the clock.
refresh_token_expire_days == 1
access_token_expire_minutes == 1

Procs == {"r1", "r2"}
Emails == {"admin@x", "user@x"}
Passwords == {"pw1", "pw2"}
\* bcrypt.gensalt(): no handler compares hash strings, one salt is enough.
Salts == {"s1"}

\* ------------------------------------------------------------- error texts
\* auth_service.py:54 and :59, the one login failure message.
MsgInvalidCredentials == "email or password is wrong"
\* auth_service.py:99 .. :139, the refresh failure message.
MsgTokenInvalid == "refresh token is invalid"
\* auth_service.py:93, raised when the decoded payload carries no user_id.
MsgInvalidRefreshToken == "Invalid refresh token"
\* auth_routes.py:190, the generic message of the refresh route's last handler.
MsgRefreshFailed == "token refresh failed"
\* password_service.py:27
MsgInvalidCurrentPassword == "current password is wrong"

VARIABLES
    users,            \* table users: id -> [email, password_hash, role]
    next_user_id,     \* autoincrement of users.id
    refresh_tokens,   \* table refresh_tokens: set of rows
    next_jti,         \* stands for uuid4: every minted refresh token is new
    now,              \* the clock read by datetime.now(timezone.utc)
    pc,               \* per refresh request: position in refresh_access_token
    tok,              \* per refresh request: the presented refresh token
    new_tok,          \* per refresh request: new_refresh_token (line 121)
    new_access,       \* per refresh request: new_access_token (line 120)
    issued,           \* refresh tokens handed to clients
    pre,              \* history: the facts about tok at the time of the call
    session,          \* per refresh request: the rows loaded in its database session
    logged_out,       \* history: jti of tokens whose logout completed
    revoked_ever,     \* history: jti of tokens whose row was ever revoked
    rotated,          \* history: <<old jti, new jti>> of persisted rotations
    issued_access,    \* access tokens handed to clients
    req               \* the protected request being served, with what the guards did

vars == <<users, next_user_id, refresh_tokens, next_jti, now, pc, tok, new_tok,
          new_access, issued, pre, session, logged_out, revoked_ever, rotated,
          issued_access, req>>

store == <<users, next_user_id, refresh_tokens>>
history == <<logged_out, revoked_ever, rotated>>
guard == <<issued_access, req>>

\* jti of the tokens whose refresh returned success.
spent == {r[1] : r \in rotated}

\* ---------------------------------------------------------------- passwords
\* hash_password: bcrypt with a fresh salt; the hash string embeds the salt.
hash_password(password, salt) == [salt |-> salt, digest |-> <<salt, password>>]

\* Mutant: every password verifies against every hash.
verify_password_any(password, password_hash) == TRUE

\* A stored hash that has the format validate_bcrypt_hash accepts (two digits
\* of cost, here 99) and that bcrypt cannot parse.
unparsable_hash == [salt |-> "$2b$99$", digest |-> <<>>]

\* verify_password hands the stored hash to bcrypt.checkpw and catches
\* nothing: bcrypt raises ValueError("Invalid salt") on a hash it cannot parse.
verify_password_raises(password, password_hash) == password_hash.salt \notin Salts

\* verify_password: recompute with the salt embedded in the hash and compare.
\* The value it returns when it does not raise.
verify_password(password, password_hash) ==
    password_hash.digest = <<password_hash.salt, password>>

\* ------------------------------------------------------------------- tokens
NoToken == [user_id |-> 0, jti |-> 0, exp |-> 0, sig |-> "none"]
NoAccess == [user_id |-> 0, email |-> "", role |-> "", exp |-> 0, sig |-> "none"]

\* A correctly signed token whose payload has no user_id claim (0 stands for
\* the absent claim: payload.get("user_id") is None).
NoUserIdToken == [user_id |-> 0, jti |-> 0, exp |-> MaxTime + refresh_token_expire_days + 1, sig |-> "ok"]

_generate_access_token(user_id, email, role) ==
    [user_id |-> user_id, email |-> email, role |-> role,
     exp |-> now + access_token_expire_minutes, sig |-> "ok"]

\* Mutant: the user_id claim is not the user the token is minted for.
_generate_refresh_token_first_user(user_id) ==
    [user_id |-> 1, jti |-> next_jti,
     exp |-> now + refresh_token_expire_days, sig |-> "ok"]

_generate_refresh_token(user_id) ==
    [user_id |-> user_id, jti |-> next_jti,
     exp |-> now + refresh_token_expire_days, sig |-> "ok"]

\* A token whose signature does not verify.
ForgedToken == [user_id |-> 1, jti |-> 0, exp |-> MaxTime + refresh_token_expire_days + 1, sig |-> "bad"]

\* jwt.decode(refresh_token, secret, algorithms): the signature is verified
\* first, then the exp claim (expired when exp <= now).
jwt_decode(t) ==
    IF t.sig # "ok" THEN "InvalidTokenError"
    ELSE IF t.exp <= now THEN "ExpiredSignatureError"
    ELSE "payload"

\* ---------------------------------------------------------------- the store
UserIds == DOMAIN users

find_by_email(email) == {u \in UserIds : users[u].email = email}
find_by_id(user_id) == IF user_id \in UserIds THEN {user_id} ELSE {}

\* RefreshTokenRepository.find_by_token: the row whose token string is t.
find_by_token(t) == {r \in refresh_tokens : r.token = t}

\* find_by_token as the request of p runs it, through get_session(): the query
\* goes to the store, and a row the session of the request has loaded already
\* is returned as the session holds it (expire_on_commit=False).
session_find_by_token(p, t) ==
    {IF \E c \in session[p] : c.token = r.token
     THEN CHOOSE c \in session[p] : c.token = r.token
     ELSE r : r \in find_by_token(t)}

\* Mutant: create replaces the rows the user already has (one session a user).
create_single_session(t, user_id, expires_at) ==
    {r \in refresh_tokens : r.user_id # user_id} \cup
        {[token |-> t, user_id |-> user_id, expires_at |-> expires_at, is_revoked |-> FALSE]}

\* RefreshTokenRepository.create: one new row, is_revoked = False, committed.
create(t, user_id, expires_at) ==
    refresh_tokens \cup
        {[token |-> t, user_id |-> user_id, expires_at |-> expires_at, is_revoked |-> FALSE]}

\* Mutant: revoke deletes the row.
revoke_deletes(t) == {r \in refresh_tokens : r.token # t}

\* Mutant: revoke returns without having written anything.
revoke_uncommitted(t) == refresh_tokens

\* Mutant: revoke flips the flag instead of setting it.
revoke_toggle(t) ==
    {IF r.token = t THEN [r EXCEPT !.is_revoked = ~r.is_revoked] ELSE r : r \in refresh_tokens}

\* Mutant: revoke sets the flag on every row of the token's user, as
\* revoke_all_for_user does.
revoke_whole_user(t) ==
    {IF \E x \in refresh_tokens : x.token = t /\ x.user_id = r.user_id
        THEN [r EXCEPT !.is_revoked = TRUE] ELSE r : r \in refresh_tokens}

\* RefreshTokenRepository.revoke: set is_revoked on the row of t if there is
\* one, and commit; no row, no change.
revoke(t) ==
    {IF r.token = t THEN [r EXCEPT !.is_revoked = TRUE] ELSE r : r \in refresh_tokens}

\* jti of the revoked rows among rows.
RevokedJti(rows) == {r.token.jti : r \in {x \in rows : x.is_revoked}}

\* ---------------------------------------------------------------- responses
\* What the route answers: the status code, the "error" text of the body and
\* the warning the handler logged on the way (the branch it took).
Response(status, error, log) == [status |-> status, error |-> error, log |-> log]
Ok == Response(200, "", "")

NoPre == [sig_ok |-> FALSE, stored |-> FALSE, revoked |-> FALSE, expired |-> FALSE,
          owner |-> FALSE, spent |-> FALSE, logged_out |-> FALSE, revoked_ever |-> FALSE]

\* The facts about a presented token in the current state.
Facts(t) ==
    [sig_ok |-> t.sig = "ok",
     stored |-> find_by_token(t) # {},
     revoked |-> \E r \in find_by_token(t) : r.is_revoked,
     expired |-> \E r \in find_by_token(t) : r.expires_at <= now,
     owner |-> t.user_id \in UserIds,
     spent |-> t.sig = "ok" /\ t.jti \in spent,
     logged_out |-> t.sig = "ok" /\ t.jti \in logged_out,
     revoked_ever |-> t.sig = "ok" /\ t.jti \in revoked_ever]

\* What a client can present: a token it was given, a token whose signature
\* does not verify, or a signed token without user_id.
Presentable == issued \cup {ForgedToken, NoUserIdToken}

\* ------------------------------------------------------------------ guards
\* auth_decorator.py:35, :47, :63 and :99
MsgAuthRequired == "authentication required"
\* auth_decorator.py:60
MsgTokenExpired == "token has expired"
\* auth_decorator.py:106
MsgForbidden == "no permission for this resource"

\* An access token whose signature does not verify.
ForgedAccess == [user_id |-> 1, email |-> "admin@x", role |-> "admin",
                 exp |-> MaxTime + access_token_expire_minutes + 1, sig |-> "bad"]
\* A signed access token without the user_id claim (0 stands for absent).
NoUserIdAccess == [user_id |-> 0, email |-> "admin@x", role |-> "admin",
                   exp |-> MaxTime + access_token_expire_minutes + 1, sig |-> "ok"]
\* A signed access token without the role claim ("" stands for absent).
NoRoleAccess == [user_id |-> 1, email |-> "admin@x", role |-> "",
                 exp |-> MaxTime + access_token_expire_minutes + 1, sig |-> "ok"]

\* What a client can send as access_token cookie; NoAccess is the missing
\* or empty cookie.
PresentableAccess == issued_access \cup {NoAccess, ForgedAccess, NoUserIdAccess, NoRoleAccess}

\* auth_decorator.py:33-35
auth_missing_token == Response(401, MsgAuthRequired, "Access token not found in cookies")
\* auth_decorator.py:61-63
auth_invalid_token == Response(401, MsgAuthRequired, "Invalid access token")
\* auth_decorator.py:58-60
auth_expired_token == Response(401, MsgTokenExpired, "Access token expired")
\* auth_decorator.py:45-47
auth_missing_user_id == Response(401, MsgAuthRequired, "user_id not found in token payload")
\* auth_decorator.py:97-99
role_no_identity == Response(401, MsgAuthRequired, "require_role called without require_auth")
\* auth_decorator.py:104-106
role_forbidden == Response(403, MsgForbidden, "Access denied")

\* Flask's g without user_id and user_role.
NoIdentity == [user_id |-> 0, user_role |-> ""]

\* Mutant: the user_id claim is not required.
require_auth_response_user_id_unchecked(a) ==
    IF a = NoAccess THEN auth_missing_token
    ELSE IF jwt_decode(a) = "InvalidTokenError" THEN auth_invalid_token
    ELSE IF jwt_decode(a) = "ExpiredSignatureError" THEN auth_expired_token
    ELSE Ok

\* Mutant: the user of the token is looked up in the store.
require_auth_response_store_checked(a) ==
    IF a = NoAccess THEN auth_missing_token
    ELSE IF jwt_decode(a) = "InvalidTokenError" THEN auth_invalid_token
    ELSE IF jwt_decode(a) = "ExpiredSignatureError" THEN auth_expired_token
    ELSE IF a.user_id = 0 \/ find_by_id(a.user_id) = {} THEN auth_missing_user_id
    ELSE Ok

\* What require_auth raises for access token a (lines 31-47, 58-63); Ok when
\* it goes on to set g and call the wrapped function.
require_auth_response(a) ==
    IF a = NoAccess THEN auth_missing_token
    ELSE IF jwt_decode(a) = "InvalidTokenError" THEN auth_invalid_token
    ELSE IF jwt_decode(a) = "ExpiredSignatureError" THEN auth_expired_token
    ELSE IF a.user_id = 0 THEN auth_missing_user_id
    ELSE Ok

\* Mutant: the role claim is taken as it is, without the default.
identity_no_default(a) == [user_id |-> a.user_id, user_role |-> a.role]

\* g.user_id and g.user_role as require_auth sets them (lines 44-54):
\* payload.get("role", "user").
identity(a) ==
    [user_id |-> a.user_id, user_role |-> IF a.role = "" THEN "user" ELSE a.role]

\* Mutant: role admin passes every role gate.
require_role_response_admin_passes(g, required_role) ==
    IF g = NoIdentity THEN role_no_identity
    ELSE IF g.user_role # required_role /\ g.user_role # "admin" THEN role_forbidden
    ELSE Ok

\* What require_role(required_role) raises with g as it is (lines 97-106).
require_role_response(g, required_role) ==
    IF g = NoIdentity THEN role_no_identity
    ELSE IF g.user_role # required_role THEN role_forbidden
    ELSE Ok

\* The decorators on an endpoint: auth says whether @require_auth is there,
\* role is the argument of @require_role ("" without it).  The last one is
\* require_role used without require_auth.
Endpoints ==
    {[auth |-> TRUE, role |-> ""], [auth |-> TRUE, role |-> "admin"],
     [auth |-> TRUE, role |-> "user"], [auth |-> FALSE, role |-> "admin"]}

NoReq == [token |-> NoAccess, endpoint |-> [auth |-> FALSE, role |-> ""], at |-> 0,
          g |-> NoIdentity, response |-> Ok, handler |-> FALSE]

TypeOK ==
    /\ next_user_id \in 1..(MaxUsers + 1)
    /\ next_jti \in 1..(MaxTokens + 1)
    /\ now \in 0..MaxTime
    /\ pc \in [Procs -> {"idle", "find", "user", "revoke", "create"}]

\* The state after create_admin_user stored the admin with the given hash.
InitWith(admin_password_hash) ==
    /\ users = (1 :> [email |-> "admin@x", password_hash |-> admin_password_hash, role |-> "admin"])
    /\ next_user_id = 2
    /\ refresh_tokens = {}
    /\ next_jti = 1
    /\ now = 0
    /\ pc = [p \in Procs |-> "idle"]
    /\ tok = [p \in Procs |-> NoToken]
    /\ new_tok = [p \in Procs |-> NoToken]
    /\ new_access = [p \in Procs |-> NoAccess]
    /\ issued = {}
    /\ pre = [p \in Procs |-> NoPre]
    /\ session = [p \in Procs |-> {}]
    /\ logged_out = {}
    /\ revoked_ever = {}
    /\ rotated = {}
    /\ issued_access = {}
    /\ req = NoReq

\* The admin is created from ADMIN_PASSWORD.
Init == InitWith(hash_password("pw1", "s1"))

\* The admin is created from ADMIN_PASSWORD or from ADMIN_PASSWORD_HASH, which
\* is stored as given when validate_bcrypt_hash accepts its format.
InitVerify ==
    \E admin_password_hash \in {hash_password(password, "s1") : password \in Passwords}
                                 \cup {unparsable_hash} :
        InitWith(admin_password_hash)

\* The clock advances.
Tick ==
    /\ now < MaxTime
    /\ now' = now + 1
    /\ UNCHANGED <<store, next_jti, pc, tok, new_tok, new_access, issued, pre, session, history, guard>>

\* ------------------------------------------------------------------- login
\* Mutant: an unknown email is answered differently from a wrong password.
login_user_not_found_distinct == Response(404, "User not found", "Login failed: user not found")

\* auth_service.py:52-54 (the route answers a ValueError with 401 and its text)
login_user_not_found == Response(401, MsgInvalidCredentials, "Login failed: user not found")
\* auth_service.py:57-59
login_invalid_password == Response(401, MsgInvalidCredentials, "Login failed: invalid password")

\* auth_routes.py:102-104: the ValueError of bcrypt is answered like the
\* ValueError of the service, with 401 and its own text.
login_invalid_salt == Response(401, "Invalid salt", "Login error")

\* The response of login(email, password) in the current state.
login_response(email, password) ==
    IF find_by_email(email) = {} THEN login_user_not_found
    ELSE IF \E u \in find_by_email(email) : verify_password_raises(password, users[u].password_hash)
         THEN login_invalid_salt
    ELSE IF \A u \in find_by_email(email) : ~verify_password(password, users[u].password_hash)
         THEN login_invalid_password
    ELSE Ok

\* AuthService.login with the route around it.
Login(email, password) ==
    LET response == login_response(email, password) IN
    /\ response.status = 200 => next_jti <= MaxTokens
    /\ IF response.status = 200
       THEN LET user_id == CHOOSE u \in find_by_email(email) : TRUE
                refresh_token == _generate_refresh_token(user_id)
                expires_at == now + refresh_token_expire_days
            IN  /\ refresh_tokens' = create(refresh_token, user_id, expires_at)
                /\ next_jti' = next_jti + 1
                /\ issued' = issued \cup {refresh_token}
                /\ issued_access' = issued_access \cup
                       {_generate_access_token(user_id, users[user_id].email, users[user_id].role)}
       ELSE UNCHANGED <<refresh_tokens, next_jti, issued, issued_access>>
    /\ UNCHANGED <<users, next_user_id, now, pc, tok, new_tok, new_access, pre, session, history, req>>

\* ------------------------------------------------------------------ logout
\* Mutant: logout leaves the row as it is.
logout_skipped(t) == refresh_tokens

\* The rows after AuthService.logout (line 148).
logout(t) == revoke(t)

\* AuthService.logout with the route around it: revoke and answer 200.
Logout(t) ==
    /\ t \in Presentable
    /\ refresh_tokens' = logout(t)
    /\ revoked_ever' = revoked_ever \cup RevokedJti(refresh_tokens')
    /\ logged_out' = IF t \in issued THEN logged_out \cup {t.jti} ELSE logged_out
    /\ UNCHANGED <<users, next_user_id, next_jti, now, pc, tok, new_tok, new_access,
                   issued, pre, session, rotated, guard>>

\* ----------------------------------------------------------------- refresh
\* auth_service.py:137-139
refresh_invalid_jwt == Response(401, MsgTokenInvalid, "Invalid refresh token (JWT)")
\* auth_service.py:134-136
refresh_expired_jwt == Response(401, MsgTokenInvalid, "Refresh token expired (JWT)")
\* auth_service.py:92-93
refresh_missing_user_id == Response(401, MsgInvalidRefreshToken, "")
\* auth_service.py:97-99
refresh_not_found == Response(401, MsgTokenInvalid, "Refresh token not found in database")
\* auth_service.py:101-103
refresh_revoked == Response(401, MsgTokenInvalid, "Refresh token is revoked")
\* auth_service.py:109-111
refresh_expired == Response(401, MsgTokenInvalid, "Refresh token expired")
\* auth_service.py:115-117
refresh_user_not_found == Response(401, MsgTokenInvalid, "User not found during token refresh")
\* auth_routes.py:188-190
refresh_unexpected == Response(500, MsgRefreshFailed, "Unexpected error during token refresh")

\* The request of p ends: its session is gone and the route answers.
\* Mutant: the session is not removed at the end of the request, and the rows
\* the request read or wrote stay in it for the next request of the worker.
Finish_session_kept(p) ==
    /\ pc' = [pc EXCEPT ![p] = "idle"]
    /\ tok' = [tok EXCEPT ![p] = NoToken]
    /\ pre' = [pre EXCEPT ![p] = NoPre]
    /\ new_tok' = [new_tok EXCEPT ![p] = NoToken]
    /\ new_access' = [new_access EXCEPT ![p] = NoAccess]
    /\ session' = [session EXCEPT ![p] = session[p]
           \cup (IF pc[p] = "find" THEN find_by_token(tok[p]) ELSE {})
           \cup (IF pc[p] = "create" /\ tok[p].user_id \in UserIds
                 THEN {[token |-> new_tok[p], user_id |-> tok[p].user_id,
                        expires_at |-> now + refresh_token_expire_days, is_revoked |-> FALSE]}
                 ELSE {})]

Finish(p) ==
    /\ pc' = [pc EXCEPT ![p] = "idle"]
    /\ tok' = [tok EXCEPT ![p] = NoToken]
    /\ pre' = [pre EXCEPT ![p] = NoPre]
    /\ new_tok' = [new_tok EXCEPT ![p] = NoToken]
    /\ new_access' = [new_access EXCEPT ![p] = NoAccess]
    /\ session' = [session EXCEPT ![p] = {}]

\* The response of the decoding (lines 89-93); Ok when the checks pass.
decode_response(t) ==
    IF jwt_decode(t) = "InvalidTokenError" THEN refresh_invalid_jwt
    ELSE IF jwt_decode(t) = "ExpiredSignatureError" THEN refresh_expired_jwt
    ELSE IF t.user_id = 0 THEN refresh_missing_user_id
    ELSE Ok

\* The request arrives and the token is decoded (lines 89-93); a token that
\* fails here is answered at once.
RefreshDecode(p, t) ==
    /\ pc[p] = "idle"
    /\ t \in Presentable
    /\ IF decode_response(t).status = 200
       THEN /\ pc' = [pc EXCEPT ![p] = "find"]
            /\ tok' = [tok EXCEPT ![p] = t]
            /\ pre' = [pre EXCEPT ![p] = Facts(t)]
       ELSE UNCHANGED <<pc, tok, pre>>
    /\ UNCHANGED <<store, next_jti, now, new_tok, new_access, issued, session, history, guard>>

\* Mutant: the is_revoked check (lines 101-103) is missing.
token_record_response_revoked_unchecked(rows) ==
    IF rows = {} THEN refresh_not_found
    ELSE IF \E r \in rows : r.expires_at < now THEN refresh_expired
    ELSE Ok

\* Mutant: the expires_at check (lines 105-111) is missing.
token_record_response_expiry_unchecked(rows) ==
    IF rows = {} THEN refresh_not_found
    ELSE IF \E r \in rows : r.is_revoked THEN refresh_revoked
    ELSE Ok

\* Mutant: a token without a row (lines 97-99) passes.
token_record_response_missing_unchecked(rows) ==
    IF \E r \in rows : r.is_revoked THEN refresh_revoked
    ELSE IF \E r \in rows : r.expires_at < now THEN refresh_expired
    ELSE Ok

\* The validity checks on the row read by find_by_token (lines 96-111).
token_record_response(rows) ==
    IF rows = {} THEN refresh_not_found
    ELSE IF \E r \in rows : r.is_revoked THEN refresh_revoked
    ELSE IF \E r \in rows : r.expires_at < now THEN refresh_expired
    ELSE Ok

\* The response of loading the user named by the payload (lines 114-117).
user_response(user_id) ==
    IF find_by_id(user_id) = {} THEN refresh_user_not_found ELSE Ok

\* The response of the insert of the new row (line 128): users.id is a
\* foreign key of refresh_tokens.user_id, so with the user gone the insert
\* fails and the route answers 500.
create_response(user_id) ==
    IF user_id \notin UserIds THEN refresh_unexpected ELSE Ok

\* What the next step of the request of p answers; Ok before the last step
\* means the request goes on.
StepResponse(p) ==
    IF pc[p] = "find" THEN token_record_response(session_find_by_token(p, tok[p]))
    ELSE IF pc[p] = "user" THEN user_response(tok[p].user_id)
    ELSE IF pc[p] = "create" THEN create_response(tok[p].user_id)
    ELSE Ok

\* Mutant: a refused row check revokes the rows of the user the token names.
RefreshFind_revokes_on_refusal(p) ==
    /\ pc[p] = "find"
    /\ IF StepResponse(p).status = 200
       THEN /\ pc' = [pc EXCEPT ![p] = "user"]
            /\ session' = [session EXCEPT ![p] = session_find_by_token(p, tok[p])]
            /\ UNCHANGED <<tok, pre, new_tok, new_access, refresh_tokens>>
       ELSE /\ Finish(p)
            /\ refresh_tokens' = {IF r.user_id = tok[p].user_id
                                  THEN [r EXCEPT !.is_revoked = TRUE] ELSE r : r \in refresh_tokens}
    /\ UNCHANGED <<users, next_user_id, next_jti, now, issued, history, guard>>

RefreshFind(p) ==
    /\ pc[p] = "find"
    /\ IF StepResponse(p).status = 200
       THEN /\ pc' = [pc EXCEPT ![p] = "user"]
            /\ session' = [session EXCEPT ![p] = session_find_by_token(p, tok[p])]
            /\ UNCHANGED <<tok, pre, new_tok, new_access>>
       ELSE Finish(p)
    /\ UNCHANGED <<store, next_jti, now, issued, history, guard>>

\* The user is loaded by the payload's user_id and the new pair is minted
\* (lines 114-121).
RefreshGetUser(p) ==
    /\ pc[p] = "user"
    /\ IF StepResponse(p).status = 200
       THEN LET user_id == tok[p].user_id IN
            /\ next_jti <= MaxTokens
            /\ new_access' = [new_access EXCEPT ![p] =
                   _generate_access_token(user_id, users[user_id].email, users[user_id].role)]
            /\ new_tok' = [new_tok EXCEPT ![p] = _generate_refresh_token(user_id)]
            /\ next_jti' = next_jti + 1
            /\ pc' = [pc EXCEPT ![p] = "revoke"]
            /\ UNCHANGED <<tok, pre, session>>
       ELSE /\ Finish(p)
            /\ UNCHANGED next_jti
    /\ UNCHANGED <<store, now, issued, history, guard>>

\* Mutant: the rotation forgets to revoke the presented token.
revoke_old_skipped(p) == refresh_tokens

\* The rows after the first write of the rotation (line 124).
revoke_old(p) == revoke(tok[p])

\* revoke(refresh_token) is committed (line 124).
RefreshRevoke(p) ==
    /\ pc[p] = "revoke"
    /\ refresh_tokens' = revoke_old(p)
    /\ revoked_ever' = revoked_ever \cup RevokedJti(refresh_tokens')
    /\ pc' = [pc EXCEPT ![p] = "create"]
    /\ session' = [session EXCEPT ![p] =
           {IF find_by_token(r.token) # {} THEN [r EXCEPT !.is_revoked = TRUE] ELSE r : r \in session[p]}]
    /\ UNCHANGED <<users, next_user_id, next_jti, now, tok, new_tok, new_access,
                   issued, pre, logged_out, rotated, guard>>

\* The rows after the second write of the rotation (lines 127-128).
create_new(p) == create(new_tok[p], tok[p].user_id, now + refresh_token_expire_days)

\* create(new_refresh_token) is committed and the call returns the new pair
\* (lines 127-132).
RefreshCreate(p) ==
    /\ pc[p] = "create"
    /\ IF StepResponse(p).status = 200
       THEN /\ refresh_tokens' = create_new(p)
            /\ issued' = issued \cup {new_tok[p]}
            /\ issued_access' = issued_access \cup {new_access[p]}
            /\ rotated' = rotated \cup {<<tok[p].jti, new_tok[p].jti>>}
       ELSE UNCHANGED <<refresh_tokens, issued, rotated, issued_access>>
    /\ Finish(p)
    /\ UNCHANGED <<users, next_user_id, next_jti, now, logged_out, revoked_ever, req>>

\* The worker dies inside refresh_access_token: what was committed stays,
\* nothing is answered.
Crash(p) ==
    /\ pc[p] \in {"find", "user", "revoke", "create"}
    /\ Finish(p)
    /\ UNCHANGED <<store, next_jti, now, issued, history, guard>>

\* --------------------------------------------------------- password change
\* password_service.py:54-57 and :60-62: 401 with one description.
InvalidPasswordError == Response(401, MsgInvalidCurrentPassword, "Password change failed")

\* Mutant: an unknown user id is answered with its own error.
change_password_user_not_found_distinct ==
    Response(404, "User not found", "Password change failed: user not found")

\* password_service.py:54-57
change_password_user_not_found ==
    [InvalidPasswordError EXCEPT !.log = "Password change failed: user not found"]
\* password_service.py:60-62
change_password_invalid_current ==
    [InvalidPasswordError EXCEPT !.log = "Password change failed: invalid current password"]

\* password_service.py:77-80: any other exception is rolled back and raised
\* again as PasswordServiceError, an HTTPException without a status code
\* (status 0 here).
change_password_failed == Response(0, "Failed to change password", "Failed to change password")

change_password_response(user_id, current_password) ==
    IF find_by_id(user_id) = {} THEN change_password_user_not_found
    ELSE IF verify_password_raises(current_password, users[user_id].password_hash)
         THEN change_password_failed
    ELSE IF ~verify_password(current_password, users[user_id].password_hash)
         THEN change_password_invalid_current
    ELSE Ok

\* Mutant: a successful change also revokes the rows of the user
\* (RefreshTokenRepository.revoke_all_for_user).
ChangePassword_revokes_sessions(user_id, current_password, new_password, salt) ==
    /\ IF change_password_response(user_id, current_password).status = 200
       THEN /\ users' = [users EXCEPT ![user_id].password_hash = hash_password(new_password, salt)]
            /\ refresh_tokens' = {IF r.user_id = user_id THEN [r EXCEPT !.is_revoked = TRUE] ELSE r :
                                      r \in refresh_tokens}
       ELSE UNCHANGED <<users, refresh_tokens>>
    /\ UNCHANGED <<next_user_id, next_jti, now, pc, tok, new_tok, new_access,
                   issued, pre, session, history, guard>>

\* Mutant: the new hash is written before the current password is verified.
ChangePassword_write_first(user_id, current_password, new_password, salt) ==
    /\ users' = IF find_by_id(user_id) # {}
                THEN [users EXCEPT ![user_id].password_hash = hash_password(new_password, salt)]
                ELSE users
    /\ UNCHANGED <<next_user_id, refresh_tokens, next_jti, now, pc, tok, new_tok, new_access,
                   issued, pre, session, history, guard>>

\* PasswordService.change_password.
ChangePassword(user_id, current_password, new_password, salt) ==
    /\ users' = IF change_password_response(user_id, current_password).status = 200
                THEN [users EXCEPT ![user_id].password_hash = hash_password(new_password, salt)]
                ELSE users
    /\ UNCHANGED <<next_user_id, refresh_tokens, next_jti, now, pc, tok, new_tok, new_access,
                   issued, pre, session, history, guard>>

\* --------------------------------------------------------- user management
\* user_service.py:95
UserAlreadyExistsError == Response(409, "User already exists", "User creation failed: email already exists")
\* user_service.py:141
UserNotFoundError == Response(404, "User not found", "User deletion failed: user not found")
\* user_service.py:146
CannotDeleteAdminError == Response(403, "Admin user cannot be deleted", "User deletion failed: cannot delete admin user")

create_user_response(email) ==
    IF find_by_email(email) # {} THEN UserAlreadyExistsError ELSE Response(201, "", "")

\* UserService.create_user: a user of role 'user' with a generated password.
create_user(email, initial_password, salt) ==
    IF create_user_response(email).status = 201
    THEN /\ next_user_id <= MaxUsers
         /\ users' = users @@ (next_user_id :>
                [email |-> email, password_hash |-> hash_password(initial_password, salt),
                 role |-> "user"])
         /\ next_user_id' = next_user_id + 1
    ELSE UNCHANGED <<users, next_user_id>>

\* A call of UserService.create_user.
CreateUser(email, initial_password, salt) ==
    /\ create_user(email, initial_password, salt)
    /\ UNCHANGED <<refresh_tokens, next_jti, now, pc, tok, new_tok, new_access,
                   issued, pre, session, history, guard>>

\* Mutant: the role of the user is not looked at (lines 144-146 missing).
delete_user_response_admin_unchecked(user_id) ==
    IF find_by_id(user_id) = {} THEN UserNotFoundError
    ELSE Response(204, "", "")

delete_user_response(user_id) ==
    IF find_by_id(user_id) = {} THEN UserNotFoundError
    ELSE IF users[user_id].role = "admin" THEN CannotDeleteAdminError
    ELSE Response(204, "", "")

\* Mutant: the user row is deleted and its rows in refresh_tokens stay.
DeleteUser_keeps_rows(user_id) ==
    /\ users' = IF delete_user_response(user_id).status = 204
                THEN [u \in UserIds \ {user_id} |-> users[u]]
                ELSE users
    /\ UNCHANGED <<next_user_id, refresh_tokens, next_jti, now, pc, tok, new_tok, new_access,
                   issued, pre, session, history, guard>>

\* UserService.delete_user: the user's rows in refresh_tokens go with the user
\* (User.refresh_tokens, cascade "all, delete-orphan").
delete_user(user_id) ==
    IF delete_user_response(user_id).status = 204
    THEN /\ users' = [u \in UserIds \ {user_id} |-> users[u]]
         /\ refresh_tokens' = {r \in refresh_tokens : r.user_id # user_id}
    ELSE UNCHANGED <<users, refresh_tokens>>

\* A call of UserService.delete_user.
DeleteUser(user_id) ==
    /\ delete_user(user_id)
    /\ UNCHANGED <<next_user_id, next_jti, now, pc, tok, new_tok, new_access,
                   issued, pre, session, history, guard>>

\* ------------------------------------------------------ protected requests
\* A request to a protected endpoint with access token a: the decorators run
\* outside in, and the handler runs when none of them raised.
Request(a, endpoint) ==
    /\ req = NoReq
    /\ a \in PresentableAccess
    /\ LET auth == IF endpoint.auth THEN require_auth_response(a) ELSE Ok
           g == IF endpoint.auth /\ auth = Ok THEN identity(a) ELSE NoIdentity
           response == IF auth # Ok THEN auth
                       ELSE IF endpoint.role # "" THEN require_role_response(g, endpoint.role)
                       ELSE Ok
       IN  req' = [token |-> a, endpoint |-> endpoint, at |-> now, g |-> g,
                   response |-> response, handler |-> response = Ok]
    /\ UNCHANGED <<store, next_jti, now, pc, tok, new_tok, new_access, issued, pre, session, history,
                   issued_access>>

\* The decorators of the routes of user_routes.py.
AdminOnly == [auth |-> TRUE, role |-> "admin"]

\* Mutant: the routes carry @require_auth alone.
users_route_response_auth_only(a) == require_auth_response(a)

\* What the decorators of a route of user_routes.py raise for access token a:
\* @require_auth is the outer one and runs first, @require_role("admin") runs
\* with the g it has set.
users_route_response(a) ==
    IF require_auth_response(a) # Ok THEN require_auth_response(a)
    ELSE require_role_response(identity(a), "admin")

\* The request as the decorators of a route of user_routes.py leave it.
users_route_request(a) ==
    [token |-> a, endpoint |-> AdminOnly, at |-> now,
     g |-> IF require_auth_response(a) = Ok THEN identity(a) ELSE NoIdentity,
     response |-> users_route_response(a), handler |-> users_route_response(a) = Ok]

\* POST /api/users: the body of the route runs when no decorator raised.
CreateUserRequest(a, email, initial_password, salt) ==
    /\ req = NoReq
    /\ a \in PresentableAccess
    /\ req' = users_route_request(a)
    /\ IF users_route_response(a) = Ok
       THEN create_user(email, initial_password, salt)
       ELSE UNCHANGED <<users, next_user_id>>
    /\ UNCHANGED <<refresh_tokens, next_jti, now, pc, tok, new_tok, new_access, issued, pre, session,
                   history, issued_access>>

\* DELETE /api/users/<user_id>: the body of the route runs when no decorator
\* raised.
DeleteUserRequest(a, user_id) ==
    /\ req = NoReq
    /\ a \in PresentableAccess
    /\ req' = users_route_request(a)
    /\ IF users_route_response(a) = Ok
       THEN delete_user(user_id)
       ELSE UNCHANGED <<users, refresh_tokens>>
    /\ UNCHANGED <<next_user_id, next_jti, now, pc, tok, new_tok, new_access, issued, pre, session,
                   history, issued_access>>

\* The request is over: the application context and its g are torn down.
RequestEnd ==
    /\ req # NoReq
    /\ req' = NoReq
    /\ UNCHANGED <<store, next_jti, now, pc, tok, new_tok, new_access, issued, pre, session, history,
                   issued_access>>

\* ------------------------------------------------------------ specifications
Session ==
    \/ \E email \in Emails, password \in Passwords : Login(email, password)
    \/ \E t \in Presentable : Logout(t)
    \/ \E p \in Procs, t \in Presentable : RefreshDecode(p, t)
    \/ \E p \in Procs : RefreshFind(p)
    \/ \E p \in Procs : RefreshGetUser(p)
    \/ \E p \in Procs : RefreshRevoke(p)
    \/ \E p \in Procs : RefreshCreate(p)
    \/ \E p \in Procs : Crash(p)

Next ==
    \/ Session
    \/ \E user_id \in 1..MaxUsers, current_password \in Passwords, new_password \in Passwords,
          salt \in Salts : ChangePassword(user_id, current_password, new_password, salt)
    \/ \E email \in Emails, initial_password \in Passwords, salt \in Salts :
          CreateUser(email, initial_password, salt)
    \/ \E user_id \in 1..MaxUsers : DeleteUser(user_id)

Spec == Init /\ [][Next]_vars

NextClock ==
    \/ Tick
    \/ Session

SpecClock == Init /\ [][NextClock]_vars

\* The single-step handlers alone: accounts, logins and logouts, no refresh
\* request under way.
NextAccount ==
    \/ \E email \in Emails, password \in Passwords : Login(email, password)
    \/ \E t \in Presentable : Logout(t)
    \/ \E user_id \in 1..MaxUsers, current_password \in Passwords, new_password \in Passwords,
          salt \in Salts : ChangePassword(user_id, current_password, new_password, salt)
    \/ \E email \in Emails, initial_password \in Passwords, salt \in Salts :
          CreateUser(email, initial_password, salt)
    \/ \E user_id \in 1..MaxUsers : DeleteUser(user_id)

SpecAccount == Init /\ [][NextAccount]_vars

\* The account handlers run against every hash create_admin_user can store.
SpecVerify == InitVerify /\ [][NextAccount]_vars

\* Protected requests served while accounts, logins and logouts change the
\* store and the clock advances.
NextGuard ==
    \/ Tick
    \/ NextAccount
    \/ \E a \in PresentableAccess, endpoint \in Endpoints : Request(a, endpoint)
    \/ \E a \in PresentableAccess, email \in Emails, initial_password \in Passwords, salt \in Salts :
          CreateUserRequest(a, email, initial_password, salt)
    \/ \E a \in PresentableAccess, user_id \in 1..MaxUsers : DeleteUserRequest(a, user_id)
    \/ RequestEnd

SpecGuard == Init /\ [][NextGuard]_vars

\* ------------------------------------------------------------------- claims
\* The token-invalid answer of the refresh route: 401 with the one message.
TokenInvalid(response) == response.status = 401 /\ response.error = MsgTokenInvalid

InFlight(p) == pc[p] # "idle"

\* C1: single-use refresh.  A refresh request that arrives after a refresh of
\* the same token has returned successfully is answered with the
\* token-invalid error: it is refused at the decoding or at the row check and
\* never gets past them, whatever login, refresh, logout, crash or clock
\* steps happen in between.
C1_SingleUseRefresh ==
    /\ \A p \in Procs : (InFlight(p) /\ pre[p].spent) =>
           (pc[p] = "find" /\ TokenInvalid(StepResponse(p)))
    /\ \A t \in Presentable : Facts(t).spent =>
           (decode_response(t) = Ok \/ TokenInvalid(decode_response(t)))

\* A second refresh of a spent token is at its row check, the row revoked.
C1_Witness ==
    \E p \in Procs :
        /\ pc[p] = "find" /\ pre[p].spent
        /\ StepResponse(p) = refresh_revoked

\* C2: two concurrent refresh requests presenting the same valid token: at
\* most one of them succeeds, so no presented token ever has two new records
\* minted from it.
C2_OneSuccessPerToken ==
    \A a \in rotated, b \in rotated : a[1] = b[1] => a = b

\* C3: the revocation of the presented token and the creation of its
\* replacement are one atomic store operation: in no store state, the state a
\* crash leaves included, is a row revoked by a rotation while the
\* replacement of that rotation is not persisted.
C3_RotationAtomic ==
    \A r \in refresh_tokens :
        (r.is_revoked /\ r.token.jti \notin logged_out) =>
            \E pair \in rotated : pair[1] = r.token.jti

\* A refresh request would run to success with token t in the current state.
Usable(t) ==
    /\ decode_response(t) = Ok
    /\ token_record_response(find_by_token(t)) = Ok
    /\ user_response(t.user_id) = Ok

\* C4: whatever point a refresh is interrupted at, between its two writes
\* included, at most one of the presented token and its replacement is
\* usable, never both: for every request that has minted a replacement and
\* for every persisted rotation.
C4_AtMostOneUsable ==
    /\ \A p \in Procs : pc[p] \in {"revoke", "create"} =>
           ~(Usable(tok[p]) /\ Usable(new_tok[p]))
    /\ \A o \in issued, n \in issued : <<o.jti, n.jti>> \in rotated =>
           ~(Usable(o) /\ Usable(n))

\* The store between the two writes, where a crash can strike: the presented
\* token revoked, the replacement not persisted, neither usable.
C4_Witness ==
    \E p \in Procs :
        /\ pc[p] = "create"
        /\ \E r \in find_by_token(tok[p]) : r.is_revoked
        /\ find_by_token(new_tok[p]) = {}
        /\ ~Usable(tok[p]) /\ ~Usable(new_tok[p])

\* C5: revocation is terminal.  No step turns is_revoked of a row from true
\* back to false, and a refresh request presenting a token whose row was
\* revoked at any earlier time (by rotation or by logout) is refused with the
\* token-invalid error at the row check.
C5_RevocationTerminal ==
    /\ [](\A p \in Procs : (InFlight(p) /\ pre[p].revoked_ever) =>
             (pc[p] = "find" /\ TokenInvalid(StepResponse(p))))
    /\ [](\A t \in Presentable : Facts(t).revoked_ever =>
             (decode_response(t) = Ok \/ TokenInvalid(decode_response(t))))
    /\ [][\A r \in refresh_tokens : r.is_revoked =>
             \A r2 \in refresh_tokens' : r2.token = r.token => r2.is_revoked]_vars

\* A refresh of a token revoked by an earlier logout is at its row check,
\* after the password of the user was changed.
C5_Witness ==
    \E p \in Procs :
        /\ pc[p] = "find" /\ pre[p].revoked_ever
        /\ tok[p].jti \in logged_out
        /\ StepResponse(p) = refresh_revoked
        /\ users[1].password_hash # hash_password("pw1", "s1")

Valid(f) == f.sig_ok /\ f.stored /\ ~f.revoked /\ f.owner

C8_LogoutRevokes ==
    /\ \A p \in Procs : (InFlight(p) /\ pre[p].logged_out) =>
           (pc[p] = "find" /\ TokenInvalid(StepResponse(p)))
    /\ \A t \in Presentable : Facts(t).logged_out =>
           (decode_response(t) = Ok \/ TokenInvalid(decode_response(t)))

\* A refresh of a logged-out token that no rotation touched is at its row
\* check.
C8_Witness ==
    \E p \in Procs :
        /\ pc[p] = "find" /\ pre[p].logged_out
        /\ tok[p].jti \notin spent
        /\ StepResponse(p) = refresh_revoked

\* Token t was handed out by a successful refresh.
Child(t) == t \in issued /\ \E pair \in rotated : pair[2] = t.jti

\* A request past its first write is rotating token t.
BeingRotated(t) == \E q \in Procs : pc[q] = "create" /\ tok[q] = t

\* C9: rotation hands over the session.  The token n a successful refresh(t)
\* returned differs from t and is stored active until it is revoked, and a
\* refresh of n is refused only if n was itself spent (a refresh of n
\* succeeded or is completing), logged out or expired, or the user is gone.
C9_RotationHandsOver ==
    /\ \A o \in issued, n \in issued : <<o.jti, n.jti>> \in rotated =>
           /\ n # o
           /\ (n.jti \notin revoked_ever /\ n.user_id \in UserIds) =>
                  \E r \in find_by_token(n) : ~r.is_revoked
    /\ \A p \in Procs : (pc[p] = "find" /\ Child(tok[p]) /\ StepResponse(p) # Ok) =>
           \/ tok[p].jti \in spent \cup logged_out
           \/ BeingRotated(tok[p])
           \/ \E r \in find_by_token(tok[p]) : r.expires_at < now
           \/ tok[p].user_id \notin UserIds

C11_OneRefreshError ==
    /\ \A t \in Presentable : decode_response(t) # Ok => TokenInvalid(decode_response(t))
    /\ \A p \in Procs : (pc[p] \in {"find", "user"} /\ StepResponse(p) # Ok) =>
           TokenInvalid(StepResponse(p))

\* C12: logout(t) completes for every t, stored and active, already revoked
\* or absent from the store; when t is already revoked or absent the rows are
\* left as they are, and a second logout(t) right after the first would leave
\* the rows the first one left.
C12_LogoutIdempotent ==
    /\ [](\A t \in Presentable : ENABLED Logout(t))
    /\ [][\A t \in Presentable : Logout(t) =>
             /\ (find_by_token(t) = {} \/ \E r \in find_by_token(t) : r.is_revoked) =>
                    refresh_tokens' = refresh_tokens
             /\ logout(t)' = refresh_tokens']_vars

\* A logout of a stored token has completed, the row is revoked, and a token
\* absent from the store is there to be logged out as well.
C12_Witness ==
    \E t \in issued :
        /\ t.jti \in logged_out
        /\ \E r \in find_by_token(t) : r.is_revoked
        /\ \E t2 \in Presentable : find_by_token(t2) = {}

\* C14: logout(t) changes at most the is_revoked flag of the one row whose
\* token is t: every other row, the other sessions of the same user
\* included, and every user record stay as they were, and no row is added or
\* removed.
C14_LogoutFrame ==
    [][\A t \in Presentable : Logout(t) =>
          /\ users' = users /\ next_user_id' = next_user_id
          /\ \A r \in refresh_tokens : r.token # t => r \in refresh_tokens'
          /\ \A r2 \in refresh_tokens' :
                 \E r \in refresh_tokens :
                     r2 \in {r, [r EXCEPT !.is_revoked = TRUE]}
                         /\ (r2 # r => r.token = t)]_vars

\* One user has a session that was logged out and another that is still
\* active.
C14_Witness ==
    \E a \in refresh_tokens, b \in refresh_tokens :
        /\ a.user_id = b.user_id /\ a.token # b.token
        /\ a.is_revoked /\ a.token.jti \in logged_out
        /\ ~b.is_revoked /\ b.token.jti \notin revoked_ever

\* C13: every successful login(email, password) adds exactly one row to
\* refresh_tokens: it holds the refresh token handed out, belongs to the user
\* of that email, has is_revoked false and expires_at = now + the refresh
\* lifetime; all earlier rows, the earlier sessions of the same user
\* included, stay as they were.
C13_LoginAddsOneRecord ==
    [][\A email \in Emails, password \in Passwords :
          (Login(email, password) /\ login_response(email, password) = Ok) =>
              \E r \in refresh_tokens' :
                  /\ r \notin refresh_tokens
                  /\ refresh_tokens' = refresh_tokens \cup {r}
                  /\ issued' = issued \cup {r.token} /\ r.token \notin issued
                  /\ r.user_id \in find_by_email(email)
                  /\ ~r.is_revoked
                  /\ r.expires_at = now + refresh_token_expire_days]_vars

\* Two logins of one user at different times: two active rows with different
\* expiry.
C13_Witness ==
    \E a \in refresh_tokens, b \in refresh_tokens :
        /\ a.user_id = b.user_id /\ a.expires_at < b.expires_at
        /\ ~a.is_revoked /\ ~b.is_revoked
        /\ {a.token.jti, b.token.jti} \cap {pair[2] : pair \in rotated} = {}

C20_FailedChangeKeepsHash ==
    [][\A user_id \in 1..MaxUsers, current_password \in Passwords,
          new_password \in Passwords, salt \in Salts :
          (ChangePassword(user_id, current_password, new_password, salt)
               /\ change_password_response(user_id, current_password) # Ok) =>
              /\ users' = users /\ next_user_id' = next_user_id
              /\ refresh_tokens' = refresh_tokens
              /\ \A email \in Emails, password \in Passwords :
                     login_response(email, password)' = login_response(email, password)]_vars

\* The admin changed the password to pw2 earlier; a change with the wrong
\* current password pw1 is refused now, and pw2 logs in while pw1 does not.
C20_Witness ==
    /\ users[1].password_hash = hash_password("pw2", "s1")
    /\ change_password_response(1, "pw1") = change_password_invalid_current
    /\ login_response("admin@x", "pw2") = Ok
    /\ login_response("admin@x", "pw1") = login_invalid_password
    /\ refresh_tokens # {}

\* The access token of the request fails one of the checks of require_auth
\* at the time of the request.
BadAccess(a, at) == a = NoAccess \/ a.sig # "ok" \/ a.exp <= at \/ a.user_id = 0

\* C15: on an endpoint under require_auth, a request whose access token is
\* missing or empty, wrongly signed, expired or without user_id is answered
\* Unauthorized (401) with no identity set and the handler not run; the
\* handler runs only with the identity set from a verified, unexpired token
\* that carries a user_id.
C15_RequireAuthRejects ==
    (req # NoReq /\ req.endpoint.auth) =>
        /\ BadAccess(req.token, req.at) =>
               (req.response.status = 401 /\ req.g = NoIdentity /\ ~req.handler)
        /\ req.handler =>
               /\ ~BadAccess(req.token, req.at)
               /\ req.g.user_id = req.token.user_id
               /\ req.g.user_role \in {"admin", "user"}
               /\ req.token.role # "" => req.g.user_role = req.token.role

\* A request with an access token a login handed out, expired meanwhile, was
\* refused.
C15_Witness ==
    /\ req # NoReq /\ req.endpoint.auth
    /\ req.token \in issued_access /\ req.token.exp <= req.at
    /\ req.response = auth_expired_token /\ ~req.handler

C17_RoleGate ==
    (req # NoReq /\ req.endpoint.role # "") =>
        /\ ~req.endpoint.auth => (req.response.status = 401 /\ ~req.handler)
        /\ (req.endpoint.auth /\ ~BadAccess(req.token, req.at)) =>
               /\ req.g.user_role # req.endpoint.role =>
                      (req.response.status = 403 /\ ~req.handler)
               /\ req.g.user_role = req.endpoint.role => req.handler
        /\ req.handler => req.g.user_role = req.endpoint.role

\* A logged-in user of role user was refused by an admin endpoint.
C17_Witness ==
    /\ req # NoReq /\ req.endpoint = [auth |-> TRUE, role |-> "admin"]
    /\ req.token \in issued_access /\ req.token.role = "user"
    /\ req.response = role_forbidden /\ ~req.handler

\* C18: a verified, unexpired access token with a user_id and no role claim
\* gets the identity with role user: the request passes endpoints under
\* require_auth alone and under require_role('user'), and require_role('admin')
\* answers Forbidden (403), not Unauthorized.
C18_RoleDefaultsToUser ==
    (req # NoReq /\ req.endpoint.auth /\ req.token.role = ""
         /\ ~BadAccess(req.token, req.at)) =>
        /\ req.g = [user_id |-> req.token.user_id, user_role |-> "user"]
        /\ req.endpoint.role \in {"", "user"} => req.handler
        /\ req.endpoint.role = "admin" => (req.response.status = 403 /\ ~req.handler)

\* The token without role claim was refused by an admin endpoint as
\* Forbidden.
C18_Witness ==
    /\ req # NoReq /\ req.token = NoRoleAccess
    /\ req.endpoint = [auth |-> TRUE, role |-> "admin"]
    /\ req.g.user_role = "user" /\ req.response = role_forbidden

C22_ChangePasswordKeepsSessions ==
    [][\A user_id \in 1..MaxUsers, current_password \in Passwords,
          new_password \in Passwords, salt \in Salts :
          ChangePassword(user_id, current_password, new_password, salt) =>
              /\ refresh_tokens' = refresh_tokens
              /\ \A t \in Presentable : Usable(t) => Usable(t)']_vars

\* The admin has a session and a changed password: the token of the session
\* is still one refresh accepts.
C22_Witness ==
    /\ users[1].password_hash = hash_password("pw2", "s1")
    /\ \E t \in issued : t.user_id = 1 /\ Usable(t)

\* C23: deleting a user deletes the rows of refresh_tokens the user owns.
\* No row names a user that does not exist; a token issued to a user that
\* has been deleted has no row and is answered with the token-invalid error
\* at the row check; and a refresh request that arrived with such a token is
\* refused there and gets no further.
C23_DeleteUserCascades ==
    /\ \A r \in refresh_tokens : r.user_id \in UserIds
    /\ \A t \in issued : t.user_id \notin UserIds =>
           /\ find_by_token(t) = {}
           /\ decode_response(t) = Ok =>
                  TokenInvalid(token_record_response(find_by_token(t)))
    /\ \A p \in Procs : (InFlight(p) /\ pre[p].sig_ok /\ ~pre[p].owner) =>
           (pc[p] = "find" /\ TokenInvalid(StepResponse(p)))

\* A user has logged in and has been deleted, and a refresh request with the
\* token of that login is waiting at the row check.
C23_Witness ==
    \E p \in Procs : /\ pc[p] = "find"
                     /\ tok[p] \in issued
                     /\ tok[p].user_id \notin UserIds
                     /\ ~pre[p].owner

\* C24: the revocation state is not carried from one request to the next.
\* A worker that is between requests holds no row of refresh_tokens; the row
\* check of a request decides on the rows as the store has them at that
\* moment; and a refresh request that arrived when the row of its token was
\* already revoked, by a logout or by the rotation of any worker, is refused
\* with the token-invalid error at the row check: the row is found revoked,
\* or is gone with its user.
C24_RevocationNotCached ==
    \A p \in Procs :
        /\ pc[p] = "idle" => session[p] = {}
        /\ pc[p] = "find" => session_find_by_token(p, tok[p]) = find_by_token(tok[p])
        /\ (InFlight(p) /\ pre[p].revoked) =>
               (pc[p] = "find" /\ StepResponse(p) \in {refresh_revoked, refresh_not_found})

\* Worker r1 is at the row check of a token one of the workers rotated
\* before the request arrived; worker r2 is at the row check of a token that
\* was logged out before its request arrived.
C24_Witness ==
    /\ pc["r1"] = "find" /\ pre["r1"].revoked /\ pre["r1"].spent
    /\ pc["r2"] = "find" /\ pre["r2"].revoked /\ pre["r2"].logged_out
    /\ tok["r1"] # tok["r2"]

\* C25: verify_password never raises: for every password and every stored
\* hash, a hash bcrypt cannot parse included, it returns a boolean, and login
\* and change_password against such a hash answer their ordinary credential
\* error.
C25_VerifyNeverRaises ==
    \A u \in UserIds, password \in Passwords :
        /\ ~verify_password_raises(password, users[u].password_hash)
        /\ login_response(users[u].email, password) \in {Ok, login_invalid_password}
        /\ change_password_response(u, password) \in {Ok, change_password_invalid_current}

\* C26: delete_user never removes an admin.  A call naming an admin is
\* answered CannotDeleteAdminError (403) and leaves the user and the rows of
\* refresh_tokens as they were; a call naming an unknown id is answered
\* UserNotFoundError and leaves the store as it was; and no delete_user call
\* takes a user out of the set of admins.
C26_AdminNeverDeleted ==
    /\ [](\A user_id \in 1..MaxUsers :
             /\ (user_id \in UserIds /\ users[user_id].role = "admin") =>
                    /\ delete_user_response(user_id) = CannotDeleteAdminError
                    /\ delete_user_response(user_id).status = 403
             /\ user_id \notin UserIds => delete_user_response(user_id) = UserNotFoundError)
    /\ [][\A user_id \in 1..MaxUsers :
             DeleteUser(user_id) =>
                 /\ delete_user_response(user_id).status # 204 => UNCHANGED store
                 /\ \A u \in UserIds : users[u].role = "admin" =>
                        (u \in DOMAIN users' /\ users'[u].role = "admin")]_vars

\* The admin has a session, a second user was created and deleted: deleting
\* the admin is refused, deleting the second user again finds nobody.
C26_Witness ==
    /\ delete_user_response(1) = CannotDeleteAdminError
    /\ \E r \in refresh_tokens : r.user_id = 1
    /\ next_user_id = 3 /\ 2 \notin UserIds
    /\ delete_user_response(2) = UserNotFoundError

\* C27: on the routes of user_routes.py (list, create and delete users) the
\* decorators run require_auth first and require_role('admin') second.  A
\* request whose token is missing or invalid is answered 401 by require_auth,
\* with no identity set; an authenticated request whose role is not admin is
\* answered 403; the body of the route runs exactly for a verified token
\* whose role is admin, a request that was refused changes nothing in the
\* store, and a request that changes the store is one whose body ran.
C27_AdminRoutesGuarded ==
    /\ []((req # NoReq /\ req.endpoint = AdminOnly) =>
             /\ BadAccess(req.token, req.at) =>
                    /\ req.response \in {auth_missing_token, auth_invalid_token,
                                         auth_expired_token, auth_missing_user_id}
                    /\ req.response.status = 401
                    /\ req.g = NoIdentity
             /\ (~BadAccess(req.token, req.at) /\ req.token.role # "admin") =>
                    (req.response = role_forbidden /\ req.response.status = 403)
             /\ req.handler <=> (~BadAccess(req.token, req.at) /\ req.token.role = "admin"))
    /\ [][(req = NoReq /\ req' # NoReq) =>
             /\ ~req'.handler => UNCHANGED store
             /\ store' # store =>
                    /\ req'.endpoint = AdminOnly /\ req'.handler
                    /\ req'.g.user_role = "admin"]_vars

\* An admin that logged in is served by a route of user_routes.py while a
\* second user exists.
C27_Witness ==
    /\ req # NoReq /\ req.endpoint = AdminOnly /\ req.handler
    /\ req.token \in issued_access /\ req.g = [user_id |-> 1, user_role |-> "admin"]
    /\ 2 \in UserIds

\* C28: login, refresh, logout and change_password never delete a row of
\* refresh_tokens.  Over every step, a token that has a row keeps a row unless
\* the step deleted the user that owns it: the set of stored tokens only
\* grows while the users stay.
C28_RowsOnlyGrow ==
    [][\A r \in refresh_tokens :
          \/ \E r2 \in refresh_tokens' : r2.token = r.token /\ r2.user_id = r.user_id
          \/ (r.user_id \in UserIds /\ r.user_id \notin DOMAIN users')]_vars

\* The store holds the row of a logged-out token, the row of a rotated token
\* and the row of its replacement, after a password change.
C28_Witness ==
    /\ \E r \in refresh_tokens : r.is_revoked /\ r.token.jti \in logged_out
    /\ \E r \in refresh_tokens : r.is_revoked /\ r.token.jti \in spent
    /\ \E r \in refresh_tokens : ~r.is_revoked
    /\ users[1].password_hash = hash_password("pw2", "s1")

\* C29: a refresh call that fails with the token-invalid error changes
\* nothing in the store.  The call is refused with that error only at the
\* decoding, at the row check or at the loading of the user, never after its
\* first write; and the steps of a call up to and including the loading of
\* the user leave users and refresh_tokens as they were.
C29_FailedRefreshKeepsStore ==
    /\ [](\A p \in Procs :
             (InFlight(p) /\ StepResponse(p).status = 401) => pc[p] \in {"find", "user"})
    /\ [][\A p \in Procs :
             (pc[p] \in {"idle", "find", "user"} /\ pc'[p] # pc[p]) => UNCHANGED store]_vars

\* A refresh request passed the row check, its user was deleted, and the
\* loading of the user is about to refuse it with the token-invalid error.
C29_Witness ==
    \E p \in Procs :
        /\ pc[p] = "user"
        /\ StepResponse(p) = refresh_user_not_found
        /\ TokenInvalid(StepResponse(p))

\* C30: rotation preserves ownership.  Every row of refresh_tokens carries the
\* user_id its token names; in a refresh request that has minted its new
\* pair, the new refresh token, the new access token and the row of the
\* presented token name one user, and the access token carries that user's
\* email and role; and the two tokens of a persisted rotation name one user.
C30_OwnershipPreserved ==
    /\ \A r \in refresh_tokens : r.token.user_id = r.user_id
    /\ \A p \in Procs : pc[p] \in {"revoke", "create"} =>
           /\ new_tok[p].user_id = tok[p].user_id
           /\ new_access[p].user_id = tok[p].user_id
           /\ \A r \in find_by_token(tok[p]) : r.user_id = new_tok[p].user_id
           /\ tok[p].user_id \in UserIds =>
                  /\ new_access[p].email = users[tok[p].user_id].email
                  /\ new_access[p].role = users[tok[p].user_id].role
    /\ \A o \in issued, n \in issued :
           <<o.jti, n.jti>> \in rotated =>
               /\ o.user_id = n.user_id
               /\ \A r \in find_by_token(n) : r.user_id = o.user_id

\* The second user logged in and refreshed: the row of the new token is the
\* second user's.
C30_Witness ==
    \E o \in issued, n \in issued :
        /\ <<o.jti, n.jti>> \in rotated
        /\ o.user_id = 2
        /\ \E r \in find_by_token(n) : r.user_id = 2

=============================================================================
